---- MODULE Spec2Model ----
(***************************************************************************)
(* Model of src/src/fractal.ts: class Fractal, the hill-climbing optimizer *)
(* that evolves a population of polygons towards a target image.           *)
(*                                                                         *)
(* The browser is the environment: the document (which element ids         *)
(* exist), the images behind the urls given to match(), the event loop     *)
(* (image load events and interval ticks are tasks, promise reactions are  *)
(* microtasks that run before the next task) and the 2d canvas.            *)
(* Polygon (./polygon) and Utils (./utils) are not part of the sources at  *)
(* hand; they are modelled from the specification (sections 3, 4.1, 4.2).  *)
(***************************************************************************)
EXTENDS Integers, Sequences, FiniteSets, TLC

\* ---------------------------------------------------------------- bounds
\* drawFrame invocations explored per behaviour
MaxRounds == 3
\* match() calls explored per behaviour
MaxMatchCalls == 2
\* pixels of the largest buffers given to the scorer on its own
MaxPixels == 2

\* ------------------------------------------------------------ environment
StatNames == {"match", "break", "mutations"}
ElementIds == {"stage", "graph", "reference"} \cup StatNames

\* The documents explored: every element present, or one element absent.
DomConfigs == {ElementIds} \cup {ElementIds \ {e} : e \in ElementIds}

\* The images behind the urls passed to match().  w, h: width and height of
\* the element as read by getImageData (line 138, element not in the
\* document); rw, rh: width and height as read by configureDom (line 113,
\* after the element was appended to #reference, where the page's layout
\* decides them); data: the decoded RGBA bytes, w * h * 4 of them.
\* "a" is 2x2 black, "c" one pixel shown two by two.
TargetImages ==
  { [url |-> "a", w |-> 2, h |-> 2, rw |-> 2, rh |-> 2,
     data |-> <<0, 0, 0, 255, 0, 0, 0, 255, 0, 0, 0, 255, 0, 0, 0, 255>>],
    [url |-> "c", w |-> 1, h |-> 1, rw |-> 2, rh |-> 2,
     data |-> <<255, 0, 0, 128>>] }

\* Outcomes of Utils.generateRandomColour explored (rgb in 0..255, alpha 0..1):
\* opaque black and transparent white
Colours ==
  { [r |-> 0, g |-> 0, b |-> 0, a |-> 1],
    [r |-> 255, g |-> 255, b |-> 255, a |-> 0] }

\* Population sizes given to the constructor; the vertex count is its default
PolygonCounts == {0, 1, 2}
DefaultVertices == 3

\* ------------------------------------------------------------- arithmetic
Abs(x) == IF x < 0 THEN -x ELSE x

RECURSIVE SetProduct(_)
SetProduct(S) ==
  IF S = {} THEN 1
  ELSE LET x == CHOOSE y \in S : TRUE IN x * SetProduct(S \ {x})

\* Match percentages are rationals; the model holds them as integers in
\* units of 1/Scale percent.  Scale is a multiple of every maxDifference a
\* round can divide by, so the division in getMatch is exact.
Scale ==
  3 * 255 * SetProduct({i.rw * i.rh : i \in TargetImages} \cup (1..MaxPixels))

\* calculateDifference returns undefined on a length mismatch; undefined in
\* arithmetic gives NaN.  Differences and matches of real rounds are >= 0.
Undefined == 0 - 1
NaN == 0 - 1

\* ------------------------------------------------- Utils (from the spec)
\* Points explored, out of the integer points of [0, maxX) x [0, maxY): the
\* origin and the far ends of the two axes
PointSamples(maxX, maxY) ==
  <<[x |-> 0, y |-> 0], [x |-> maxX - 1, y |-> 0], [x |-> 0, y |-> maxY - 1]>>

\* Sequences of points explored: every point at the origin, or the samples
\* one after the other
generateRandomPoints(count, maxX, maxY) ==
  LET ps == PointSamples(maxX, maxY)
  IN {[i \in 1..count |-> ps[1]],
      [i \in 1..count |-> ps[((i - 1) % Len(ps)) + 1]]}

generateRandomColour == Colours

\* ----------------------------------------------- Polygon (from the spec)
NewPolygon(points, colour) ==
  [points |-> points, colour |-> colour, stashed |-> << >>]

stash(p) ==
  [p EXCEPT !.stashed = <<[points |-> p.points, colour |-> p.colour]>>]

\* One perturbation: one vertex replaced by a fresh random point, or the
\* colour replaced by a fresh random colour.  The set of possible results.
mutate(p, maxX, maxY) ==
  LET ps == PointSamples(maxX, maxY)
  IN {[p EXCEPT !.points[i] = ps[k]] : i \in DOMAIN p.points, k \in DOMAIN ps}
       \cup {[p EXCEPT !.colour = c] : c \in generateRandomColour}

pop(p) ==
  IF p.stashed = << >> THEN p
  ELSE [points |-> p.stashed[1].points, colour |-> p.stashed[1].colour,
        stashed |-> << >>]

\* What the optimizer can observe of a polygon: its points and its colour
Shape(p) == [points |-> p.points, colour |-> p.colour]
Shapes(polys) == [i \in DOMAIN polys |-> Shape(polys[i])]

\* ------------------------------------------------------ canvas (browser)
\* context.fill() paints the interior of the closed path through the
\* polygon's points (nonzero winding rule), antialiased: a pixel is painted
\* in proportion to the part of it the interior covers.  The model measures
\* that part at SubSamples points of the pixel, at mid height and at
\* (2k - 1) / (2 * SubSamples) of its width.  Coordinates below are in units
\* of 1 / (2 * SubSamples) pixel.  A path without area paints nothing.
SubSamples == 2

\* The byte of a partly covered pixel is the rasteriser's choice.  Where the
\* blend of source and destination falls between two bytes, a build rounds
\* it to the nearest byte, a half upwards (Java2D, exact area), or down
\* (libcairo 1.16: black over half of a white pixel reads 127).
Rasterisers == {"nearest", "down"}

VARIABLE
  rasteriser        \* the rounding of the canvas the page runs on

\* num / den as a byte, in the rounding of the build's rasteriser
RoundByte(num, den) ==
  IF rasteriser = "nearest" THEN (2 * num + den) \div (2 * den)
  ELSE num \div den

\* Twice the signed area of the triangle a, b, s
Cross(ax, ay, bx, by, sx, sy) == (bx - ax) * (sy - ay) - (by - ay) * (sx - ax)

\* What the edge from a to b adds to the winding number of the path around s
EdgeWinding(ax, ay, bx, by, sx, sy) ==
  IF ay <= sy /\ sy < by
  THEN (IF Cross(ax, ay, bx, by, sx, sy) > 0 THEN 1 ELSE 0)
  ELSE IF by <= sy /\ sy < ay
       THEN (IF Cross(ax, ay, bx, by, sx, sy) < 0 THEN 0 - 1 ELSE 0)
       ELSE 0

\* The winding number around s of the first n edges of the closed path:
\* edge i runs from point i to the next one, the last edge (closePath) back
\* to the first point
RECURSIVE Winding(_, _, _, _)
Winding(points, n, sx, sy) ==
  IF n = 0 THEN 0
  ELSE EdgeWinding(2 * SubSamples * points[n].x,
                   2 * SubSamples * points[n].y,
                   2 * SubSamples * points[(n % Len(points)) + 1].x,
                   2 * SubSamples * points[(n % Len(points)) + 1].y, sx, sy)
       + Winding(points, n - 1, sx, sy)

\* The number of samples of pixel (x, y) inside the polygon's path
Coverage(p, x, y) ==
  Cardinality({k \in 1..SubSamples :
    Winding(p.points, Len(p.points), 2 * SubSamples * x + 2 * k - 1,
            2 * SubSamples * y + SubSamples) # 0})

\* Source-over compositing of a channel, the source weighted by the colour's
\* alpha and by the coverage; rounded to a byte
Blend(src, alpha, cov, dst) ==
  RoundByte(src * alpha * cov + dst * (SubSamples - alpha * cov), SubSamples)

\* A pixel after a polygon that covers cov of its samples is filled over it
FillOver(colour, cov, below) ==
  <<Blend(colour.r, colour.a, cov, below[1]),
    Blend(colour.g, colour.a, cov, below[2]),
    Blend(colour.b, colour.a, cov, below[3]),
    Blend(255, colour.a, cov, below[4])>>

\* Pixel (x, y) after the white background of line 61 and the first n
\* polygons, drawn in array order
RECURSIVE PixelAfter(_, _, _, _)
PixelAfter(polys, n, x, y) ==
  IF n = 0 THEN <<255, 255, 255, 255>>
  ELSE FillOver(polys[n].colour, Coverage(polys[n], x, y),
                PixelAfter(polys, n - 1, x, y))

\* The first n pixels of the canvas, row by row, four bytes each
RECURSIVE PixelsUpTo(_, _, _)
PixelsUpTo(polys, width, n) ==
  IF n = 0 THEN << >>
  ELSE PixelsUpTo(polys, width, n - 1)
         \o PixelAfter(polys, Len(polys), (n - 1) % width, (n - 1) \div width)

\* drawFrame lines 60-71 followed by context.getImageData(...).data
Composite(polys, width, height) == PixelsUpTo(polys, width, width * height)

\* ------------------------------------------------------ DifferenceScorer
\* Variant of lines 165-177 that also scores the alpha byte (used to test
\* the properties below)
RECURSIVE SumPixelsWithAlpha(_, _, _)
SumPixelsWithAlpha(imageBuf, canvasBuf, i) ==
  IF i >= Len(canvasBuf) THEN 0
  ELSE Abs(imageBuf[i + 1] - canvasBuf[i + 1])
       + Abs(imageBuf[i + 2] - canvasBuf[i + 2])
       + Abs(imageBuf[i + 3] - canvasBuf[i + 3])
       + Abs(imageBuf[i + 4] - canvasBuf[i + 4])
       + SumPixelsWithAlpha(imageBuf, canvasBuf, i + 4)

\* Variant of line 115 that counts four channels (used to test the
\* properties below)
MaxDifferenceFourChannels(width, height) == width * height * 4 * 255

\* configureDom, line 115
MaxDifferenceFor(width, height) == width * height * 3 * 255

RECURSIVE SumPixels(_, _, _)
SumPixels(imageBuf, canvasBuf, i) ==
  IF i >= Len(canvasBuf) THEN 0
  ELSE Abs(imageBuf[i + 1] - canvasBuf[i + 1])
       + Abs(imageBuf[i + 2] - canvasBuf[i + 2])
       + Abs(imageBuf[i + 3] - canvasBuf[i + 3])
       + SumPixels(imageBuf, canvasBuf, i + 4)

calculateDifference(imageBuf, canvasBuf) ==
  IF Len(imageBuf) # Len(canvasBuf) THEN Undefined
  ELSE SumPixels(imageBuf, canvasBuf, 0)

\* Variant of line 148 without the "1 -" (used to test the properties below)
getMatchOfDifference(diff, maxDiff) ==
  IF diff = Undefined THEN NaN
  ELSE 100 * ((diff * Scale) \div maxDiff)

\* 100 * (1 - diff / maxDifference), in units of 1/Scale percent
getMatch(diff, maxDiff) ==
  IF diff = Undefined THEN NaN
  ELSE 100 * (Scale - (diff * Scale) \div maxDiff)

\* match.toFixed(4): the match rounded to a multiple of 0.0001 percent
toFixed4(m) ==
  (m \div Scale) * 10000 + (2 * 10000 * (m % Scale) + Scale) \div (2 * Scale)

\* ------------------------------------------------------------------ state
VARIABLES
  dom,              \* ids of the elements the document holds
  matchCalls,       \* match() calls made so far
  loading,          \* per url: the loads of match() calls still in flight
  chain,            \* the promise chain now running its reactions, if any
  intervals,        \* intervals installed by main(); none is ever cleared
  POLYGON_COUNT, POLYGON_VERTICES,
  canvas, graph,    \* the elements setContext found, with their dimensions
  polygons, nextMutable, imageData, lastMatch, maxDifference,
  stats,            \* names of the stats entries that hold an element
  mutations, breakthroughs,
  sink,             \* innerHTML last written to each stats element
  rounds,           \* drawFrame invocations so far
  ev,               \* the last step taken and, for drawFrame, what it did
  scorer            \* the scorer run on its own: its inputs and its results

vars == <<rasteriser, dom, matchCalls, loading, chain, intervals, POLYGON_COUNT,
          POLYGON_VERTICES, canvas, graph, polygons, nextMutable, imageData,
          lastMatch, maxDifference, stats, mutations, breakthroughs, sink,
          rounds, ev, scorer>>

NoElement == [el |-> FALSE, width |-> 0, height |-> 0]

\* popped: the indices of the polygons pop() was called on, in call order
Event(op) ==
  [op |-> op, match |-> NaN, accepted |-> FALSE, popped |-> << >>,
   threw |-> 0]

\* The scorer when it is not run on its own
NoScorer ==
  [pc |-> "off", target |-> << >>, rendered |-> << >>, width |-> 0,
   height |-> 0, diff |-> Undefined, max |-> 0, match |-> NaN]

\* The fields after new Fractal(polygons, vertices)
Constructed(count) ==
  /\ matchCalls = 0
  /\ loading = [i \in {t.url : t \in TargetImages} |-> 0]
  /\ chain = << >>
  /\ intervals = 0
  /\ POLYGON_COUNT = count
  /\ POLYGON_VERTICES = DefaultVertices
  /\ canvas = NoElement
  /\ graph = NoElement
  /\ polygons = << >>
  /\ nextMutable = 0
  /\ imageData = << >>
  /\ lastMatch = 0
  /\ maxDifference = 1
  /\ stats = {}
  /\ mutations = 0
  /\ breakthroughs = 0
  /\ sink = [s \in StatNames |-> << >>]
  /\ rounds = 0
  /\ ev = Event("new")

\* State after new Fractal(polygons, vertices), in some document
Init ==
  /\ rasteriser \in Rasterisers
  /\ dom \in DomConfigs
  /\ \E count \in PolygonCounts : Constructed(count)
  /\ scorer = NoScorer

\* ------------------------------------------------------------- event loop
\* Promise reactions (getImageData, main) are microtasks: once a load has
\* resolved, its chain runs to the end before any other task starts.
QueueEmpty == chain = << >>

\* ---------------------------------------------------------------- match
\* match(imageUrl): loadImage creates the element and the load starts.
Match(img) ==
  /\ QueueEmpty
  /\ matchCalls < MaxMatchCalls
  /\ matchCalls' = matchCalls + 1
  /\ loading' = [loading EXCEPT ![img.url] = @ + 1]
  /\ ev' = Event("match")
  /\ UNCHANGED <<scorer, rasteriser, dom, chain, intervals, POLYGON_COUNT,
                 POLYGON_VERTICES, canvas, graph, polygons, nextMutable,
                 imageData, lastMatch, maxDifference, stats, mutations,
                 breakthroughs, sink, rounds>>

\* img.onload: the promise of loadImage resolves
LoadResolved(img) ==
  /\ QueueEmpty
  /\ loading[img.url] > 0
  /\ loading' = [loading EXCEPT ![img.url] = @ - 1]
  /\ chain' = <<[img |-> img, pc |-> "getImageData"]>>
  /\ ev' = Event("onload")
  /\ UNCHANGED <<scorer, rasteriser, dom, matchCalls, intervals, POLYGON_COUNT,
                 POLYGON_VERTICES, canvas, graph, polygons, nextMutable,
                 imageData, lastMatch, maxDifference, stats, mutations,
                 breakthroughs, sink, rounds>>

\* Variant of line 105 that lets the chain go on after a failed load (used
\* to test the properties below)
LoadRejectedGoesOn(img) ==
  /\ QueueEmpty
  /\ loading[img.url] > 0
  /\ loading' = [loading EXCEPT ![img.url] = @ - 1]
  /\ chain' = <<[img |-> img, pc |-> "getImageData"]>>
  /\ ev' = Event("onerror")
  /\ UNCHANGED <<scorer, rasteriser, dom, matchCalls, intervals, POLYGON_COUNT,
                 POLYGON_VERTICES, canvas, graph, polygons, nextMutable,
                 imageData, lastMatch, maxDifference, stats, mutations,
                 breakthroughs, sink, rounds>>

\* img.onerror: the promise rejects and neither reaction of the chain runs
LoadRejected(img) ==
  /\ QueueEmpty
  /\ loading[img.url] > 0
  /\ loading' = [loading EXCEPT ![img.url] = @ - 1]
  /\ ev' = Event("onerror")
  /\ UNCHANGED <<scorer, rasteriser, dom, matchCalls, chain, intervals,
                 POLYGON_COUNT, POLYGON_VERTICES, canvas, graph, polygons,
                 nextMutable, imageData, lastMatch, maxDifference, stats,
                 mutations, breakthroughs, sink, rounds>>

\* First reaction of the chain: the image's bytes become the target buffer
GetImageData ==
  /\ chain # << >>
  /\ chain[1].pc = "getImageData"
  /\ imageData' = chain[1].img.data
  /\ chain' = <<[chain[1] EXCEPT !.pc = "main"]>>
  /\ ev' = Event("getImageData")
  /\ UNCHANGED <<scorer, rasteriser, dom, matchCalls, loading, intervals,
                 POLYGON_COUNT, POLYGON_VERTICES, canvas, graph, polygons,
                 nextMutable, lastMatch, maxDifference, stats, mutations,
                 breakthroughs, sink, rounds>>

\* ----------------------------------------------------------------- main
generateInitialPolygons(count, vertices, width, height) ==
  [1..count ->
     {NewPolygon(pts, col) :
        pts \in generateRandomPoints(vertices, width, height),
        col \in generateRandomColour}]

\* Where main() stops: the line of the first dereference of a missing
\* element, 0 when it runs to its end.
MainThrowsAt(d) ==
  IF "stage" \notin d THEN 94
  ELSE IF "reference" \notin d THEN 110
  ELSE IF "graph" \notin d THEN 114
  ELSE 0

\* The fields main() leaves when it stops at the given line (0: at its end),
\* all but the population
MainFields(d, img, line) ==
  [canvas |->
     IF line = 94 THEN NoElement
     ELSE IF line = 110 THEN [canvas EXCEPT !.el = TRUE]
     ELSE [el |-> TRUE, width |-> img.rw, height |-> img.rh],
   graph |->
     IF line = 94 THEN graph
     ELSE IF line = 0 THEN [el |-> TRUE, width |-> img.rw, height |-> img.rh]
     ELSE [graph EXCEPT !.el = ("graph" \in d)],
   maxDifference |->
     IF line = 0 THEN MaxDifferenceFor(img.rw, img.rh) ELSE maxDifference,
   stats |-> IF line = 0 THEN d \cap StatNames ELSE stats]

\* Second reaction of the chain: setContext, configureDom, cacheDomElements,
\* a fresh random population and one more interval
Main ==
  /\ chain # << >>
  /\ chain[1].pc = "main"
  /\ chain' = << >>
  /\ LET line == MainThrowsAt(dom)
         f == MainFields(dom, chain[1].img, line)
     IN /\ canvas' = f.canvas
        /\ graph' = f.graph
        /\ maxDifference' = f.maxDifference
        /\ stats' = f.stats
        /\ IF line = 0
           THEN /\ polygons' \in generateInitialPolygons(
                      POLYGON_COUNT, POLYGON_VERTICES, f.canvas.width, f.canvas.height)
                /\ intervals' = intervals + 1
           ELSE UNCHANGED <<polygons, intervals>>
        /\ ev' = [Event("main") EXCEPT !.threw = line]
  /\ UNCHANGED <<scorer, rasteriser, dom, matchCalls, loading, POLYGON_COUNT,
                 POLYGON_VERTICES, nextMutable, imageData, lastMatch,
                 mutations, breakthroughs, sink, rounds>>

\* ------------------------------------------------------------ drawFrame
\* A frame is the part of the state drawFrame works on, together with what
\* the invocation did: threw is the line of an uncaught TypeError (0: none).

\* setStat: this.stats[stat].innerHTML = val.toString()
setStat(F, st, stat, val) ==
  IF stat \in st THEN [F EXCEPT !.sink[stat] = <<val>>]
  ELSE [F EXCEPT !.threw = 192]

\* Variants of the comparison of line 74 (used to test the properties below)
AcceptsAnyChange(match, last) == match # NaN /\ last # NaN /\ match # last
AcceptsTie(match, last) == match # NaN /\ last # NaN /\ match >= last

\* match > this.lastMatch; a comparison with NaN is false
Accepts(match, last) == match # NaN /\ last # NaN /\ match > last

\* Variant of lines 79-81 that calls pop() on the polygon after the selected
\* one (used to test the properties below)
AcceptOrRejectPopsOther(F, st, sel, match) ==
  IF Accepts(match, F.lastMatch)
  THEN LET f1 == [F EXCEPT !.lastMatch = match, !.accepted = TRUE,
                           !.breakthroughs = @ + 1]
           f2 == setStat(f1, st, "break", F.breakthroughs)
       IN IF f2.threw # 0 THEN f2
          ELSE setStat(f2, st, "match", toFixed4(match))
  ELSE [F EXCEPT !.polygons[(sel % Len(F.polygons)) + 1] = pop(@),
                 !.popped = Append(@, sel % Len(F.polygons))]

\* Variant of lines 74-81 that brings an accepted polygon to the top of the
\* draw order (used to test the properties below)
AcceptOrRejectRaises(F, st, sel, match) ==
  IF Accepts(match, F.lastMatch)
  THEN LET f1 == [F EXCEPT !.lastMatch = match, !.accepted = TRUE,
                           !.breakthroughs = @ + 1,
                           !.polygons =
                             SubSeq(@, 1, sel - 1) \o SubSeq(@, sel + 1, Len(@))
                               \o <<@[sel]>>]
           f2 == setStat(f1, st, "break", F.breakthroughs)
       IN IF f2.threw # 0 THEN f2
          ELSE setStat(f2, st, "match", toFixed4(match))
  ELSE [F EXCEPT !.polygons[sel] = pop(@), !.popped = Append(@, sel - 1)]

\* Variant of lines 79-81 that keeps a rejected mutation (used to test the
\* properties below)
AcceptOrRejectKeeps(F, st, sel, match) ==
  IF Accepts(match, F.lastMatch)
  THEN LET f1 == [F EXCEPT !.lastMatch = match, !.accepted = TRUE,
                           !.breakthroughs = @ + 1]
           f2 == setStat(f1, st, "break", F.breakthroughs)
       IN IF f2.threw # 0 THEN f2
          ELSE setStat(f2, st, "match", toFixed4(match))
  ELSE F

\* Lines 74-81
AcceptOrReject(F, st, sel, match) ==
  IF Accepts(match, F.lastMatch)
  THEN LET f1 == [F EXCEPT !.lastMatch = match, !.accepted = TRUE,
                           !.breakthroughs = @ + 1]
           f2 == setStat(f1, st, "break", F.breakthroughs)
       IN IF f2.threw # 0 THEN f2
          ELSE setStat(f2, st, "match", toFixed4(match))
  ELSE [F EXCEPT !.polygons[sel] = pop(@), !.popped = Append(@, sel - 1)]

\* Variant of line 84 that counts rejected rounds only (used to test the
\* properties below)
CountMutationOnReject(F, st) ==
  IF F.threw # 0 \/ F.accepted THEN F
  ELSE setStat([F EXCEPT !.mutations = @ + 1], st, "mutations", F.mutations)

\* Line 84
CountMutation(F, st) ==
  IF F.threw # 0 THEN F
  ELSE setStat([F EXCEPT !.mutations = @ + 1], st, "mutations", F.mutations)

\* Lines 87-89
AdvanceCursor(F, count) ==
  IF F.threw # 0 THEN F
  ELSE [F EXCEPT !.nextMutable = IF @ + 1 >= count THEN 0 ELSE @ + 1]

\* The match of a population's composite against the target (lines 69-73)
MatchOf(polys) ==
  getMatch(
    calculateDifference(imageData, Composite(polys, canvas.width, canvas.height)),
    maxDifference)

\* Lines 64-89 with the selected polygon mutated to m
Frame(m) ==
  LET sel == nextMutable + 1
      F0 == [polygons |-> [polygons EXCEPT ![sel] = m],
             lastMatch |-> lastMatch, breakthroughs |-> breakthroughs,
             mutations |-> mutations, nextMutable |-> nextMutable,
             sink |-> sink, accepted |-> FALSE, popped |-> << >>, threw |-> 0,
             match |-> MatchOf([polygons EXCEPT ![sel] = m])]
  IN AdvanceCursor(
       CountMutation(AcceptOrReject(F0, stats, sel, F0.match), stats),
       POLYGON_COUNT)

\* Variant of line 47 (used to test the properties below): the callback is
\* scheduled once, not repeatedly
TimerOnce == intervals > 0 /\ rounds < intervals

\* setInterval(drawFrame, 0), line 47: a tick is due as long as an interval
\* is installed
TimerDue == intervals > 0

\* A tick can be delivered: no promise reaction is pending (and the bound
\* on rounds is not reached yet)
TickDue == QueueEmpty /\ TimerDue /\ rounds < MaxRounds

\* One tick of an interval
DrawFrame ==
  /\ TickDue
  /\ rounds' = rounds + 1
  /\ IF nextMutable + 1 \notin DOMAIN polygons
     THEN \* poly is undefined: poly.stash() throws
          /\ ev' = [Event("drawFrame") EXCEPT !.threw = 65]
          /\ UNCHANGED <<polygons, lastMatch, breakthroughs, mutations,
                         nextMutable, sink>>
     ELSE \E m \in mutate(stash(polygons[nextMutable + 1]),
                          canvas.width, canvas.height) :
            \E F \in {Frame(m)} :
               /\ polygons' = F.polygons
               /\ lastMatch' = F.lastMatch
               /\ breakthroughs' = F.breakthroughs
               /\ mutations' = F.mutations
               /\ nextMutable' = F.nextMutable
               /\ sink' = F.sink
               /\ ev' = [op |-> "drawFrame", match |-> F.match,
                         accepted |-> F.accepted, popped |-> F.popped,
                         threw |-> F.threw]
  /\ UNCHANGED <<scorer, rasteriser, dom, matchCalls, loading, chain, intervals,
                 POLYGON_COUNT, POLYGON_VERTICES, canvas, graph, imageData,
                 maxDifference, stats>>

\* ------------------------------------------------------------------ spec
Next ==
  \/ \E img \in TargetImages : Match(img)
  \/ \E img \in TargetImages : LoadResolved(img)
  \/ \E img \in TargetImages : LoadRejected(img)
  \/ GetImageData
  \/ Main
  \/ DrawFrame

Spec == Init /\ [][Next]_vars

\* The event loop delivers a due tick: the step of Next that counts a round
Tick == TickDue /\ rounds' = rounds + 1

\* The event loop runs a pending promise reaction and a due tick of an
\* interval sooner or later
FairSpec ==
  Spec /\ WF_vars(GetImageData) /\ WF_vars(Main) /\ WF_rounds(Tick)

\* ----------------------------------------------------- the scorer alone
\* RGBA pixels the buffers handed to the scorer are made of
PixelSamples ==
  {<<0, 0, 0, 255>>, <<0, 0, 0, 0>>, <<255, 255, 255, 255>>,
   <<10, 200, 30, 128>>}

\* The Uint8ClampedArray of an ImageData of n pixels: 4 bytes per pixel
Buffers(n) ==
  {[k \in 1..(4 * n) |-> f[((k - 1) \div 4) + 1][((k - 1) % 4) + 1]] :
     f \in [1..n -> PixelSamples]}

\* calculateDifference(imageData, canvasData) is about to be called with two
\* buffers of one width x height
ScorerInit ==
  /\ rasteriser \in Rasterisers
  /\ dom = ElementIds
  /\ \E count \in PolygonCounts : Constructed(count)
  /\ \E width \in 1..MaxPixels, height \in 1..MaxPixels :
       /\ width * height <= MaxPixels
       /\ \E target \in Buffers(width * height),
             rendered \in Buffers(width * height) :
            scorer = [NoScorer EXCEPT !.pc = "input", !.target = target,
                                      !.rendered = rendered,
                                      !.width = width, !.height = height]

\* calculateDifference, lines 151-181
ScorerDifference ==
  /\ scorer.pc = "input"
  /\ scorer' = [scorer EXCEPT
                  !.pc = "difference",
                  !.diff = calculateDifference(scorer.target, scorer.rendered)]
  /\ UNCHANGED <<rasteriser, dom, matchCalls, loading, chain, intervals,
                 POLYGON_COUNT, POLYGON_VERTICES, canvas, graph, polygons,
                 nextMutable, imageData, lastMatch, maxDifference, stats,
                 mutations, breakthroughs, sink, rounds, ev>>

\* getMatch, lines 145-149, against the maxDifference of line 115
ScorerMatch ==
  /\ scorer.pc = "difference"
  /\ LET max == MaxDifferenceFor(scorer.width, scorer.height)
     IN scorer' = [scorer EXCEPT !.pc = "match", !.max = max,
                                 !.match = getMatch(scorer.diff, max)]
  /\ UNCHANGED <<rasteriser, dom, matchCalls, loading, chain, intervals,
                 POLYGON_COUNT, POLYGON_VERTICES, canvas, graph, polygons,
                 nextMutable, imageData, lastMatch, maxDifference, stats,
                 mutations, breakthroughs, sink, rounds, ev>>

ScorerNext ==
  \/ ScorerDifference
  \/ ScorerMatch

ScoreSpec == ScorerInit /\ [][ScorerNext]_vars

\* ----------------------------------------------------------- properties
\* A step that is a drawFrame invocation
RoundStep == rounds' = rounds + 1

\* A drawFrame invocation that selected a polygon and scored the composite,
\* seen from the state it leaves
Scored == ev.op = "drawFrame" /\ ev.threw # 65
Rejected == Scored /\ ~ev.accepted

\* C1: lastMatch never decreases, whatever step is taken and whatever the
\* mutation, the rendering and the scoring of a round give.
C1_Monotonic == [][lastMatch' >= lastMatch]_vars

\* C1 witness: a second breakthrough has just raised lastMatch again.
C1_Witness ==
  Scored /\ ev.accepted /\ breakthroughs >= 2 /\ rounds >= 3 /\ lastMatch > 0

\* C2: in every round, a match strictly above lastMatch becomes the new
\* lastMatch, adds exactly one breakthrough and pop() is not called; any
\* other match (a tie included) leaves lastMatch and breakthroughs as they
\* were and pop() is called exactly once, on the selected polygon.
C2_AcceptReject ==
  [][(RoundStep /\ Scored') =>
       IF ev'.match # NaN /\ ev'.match > lastMatch
       THEN /\ lastMatch' = ev'.match
            /\ breakthroughs' = breakthroughs + 1
            /\ ev'.accepted /\ ev'.popped = << >>
       ELSE /\ lastMatch' = lastMatch
            /\ breakthroughs' = breakthroughs
            /\ ~ev'.accepted /\ ev'.popped = <<nextMutable>>]_vars

\* C2 witness: a round whose match tied with a positive lastMatch was rejected.
C2_Witness ==
  Rejected /\ Len(ev.popped) = 1 /\ ev.match = lastMatch /\ lastMatch > 0

\* C3: the composite of every accepted round scores strictly above the
\* composite of the population as it was before the round's mutation.
C3_AcceptedImproves ==
  [][(RoundStep /\ Scored' /\ ev'.accepted /\ ev'.threw = 0)
       => ev'.match > MatchOf(polygons)]_vars

\* C4: a rejected round leaves the points and the colour of every polygon,
\* the selected one included, as they were before the round.
C4_RejectReverts ==
  [][(RoundStep /\ Rejected') => Shapes(polygons') = Shapes(polygons)]_vars

\* C4 witness: a rejected round whose mutation had changed the composite
\* (its match differs from that of the restored population), with a second
\* polygon in the population.
C4_Witness ==
  /\ Rejected /\ Len(ev.popped) = 1 /\ ev.match # NaN
  /\ Len(polygons) = 2
  /\ ev.match # MatchOf(polygons)

\* The cursor after one more round (lines 87-89)
NextCursor == IF nextMutable + 1 >= POLYGON_COUNT THEN 0 ELSE nextMutable + 1

\* C5: with POLYGON_COUNT >= 1 the cursor is in [0, POLYGON_COUNT) at the
\* start of every round and every round advances it by one, wrapping to 0,
\* whether the mutation was accepted or rejected (so POLYGON_COUNT rounds
\* from 0 select every index once, in increasing order).
C5_RoundRobin ==
  [][(RoundStep /\ POLYGON_COUNT >= 1) =>
       /\ nextMutable \in 0..(POLYGON_COUNT - 1)
       /\ nextMutable' = NextCursor]_vars

\* C6: every round, accepted or rejected, adds exactly one to mutations.
C6_MutationsCount ==
  [][(RoundStep /\ Scored') => mutations' = mutations + 1]_vars

\* The target buffer and the canvas buffer of a round differ in length
Mismatch == Len(imageData) # 4 * canvas.width * canvas.height

\* C7: a round whose two buffers differ in length aborts the run: it does not
\* count as an ordinary rejected round (mutations and the cursor stay) and
\* no round executes after it.  Stated for documents that hold every stats
\* element, where no round throws.
C7_MismatchAborts ==
  [][/\ (RoundStep /\ Scored' /\ Mismatch /\ stats = StatNames) =>
          (mutations' = mutations /\ nextMutable' = nextMutable)
     /\ (Scored /\ Mismatch /\ stats = StatNames) => ~RoundStep]_vars

\* C8: with a stats element missing, every round that selected a polygon
\* still runs to its end: no exception, mutations one higher, the cursor
\* advanced with wrap.
C8_SinkOptional ==
  [][(RoundStep /\ Scored' /\ stats # StatNames) =>
       /\ ev'.threw = 0
       /\ mutations' = mutations + 1
       /\ nextMutable' = NextCursor]_vars

\* C9: when the chain of a match() call has run main(), lastMatch,
\* nextMutable, mutations and breakthroughs are 0, so the first round of the
\* new run starts from the initial values.  Stated for documents that hold
\* every stats element, where no round throws.
C9_ResetOnNewRun ==
  (ev.op = "main" /\ ev.threw = 0 /\ stats = StatNames) =>
     (lastMatch = 0 /\ nextMutable = 0 /\ mutations = 0 /\ breakthroughs = 0)

\* C10: once main() has installed an interval and while its rounds run (a
\* population to select from, every stats element present), imageData is
\* never assigned another buffer.
C10_TargetReadOnly ==
  [][(intervals > 0 /\ POLYGON_COUNT >= 1 /\ stats = StatNames)
       => imageData' = imageData]_vars

\* C11: when the load of a match() call fails, neither getImageData nor
\* main runs for it: the failure starts no promise reaction, is never
\* followed by one, and leaves the target buffer, the population, the canvas,
\* the intervals, the round count and the four optimizer fields as they were.
C11_LoadFailure ==
  [][/\ ev'.op = "onerror" =>
          /\ chain' = << >>
          /\ UNCHANGED <<imageData, polygons, canvas, graph, maxDifference,
                         stats, intervals, rounds, lastMatch, mutations,
                         breakthroughs, nextMutable>>
     /\ ev.op = "onerror" => ev'.op \notin {"getImageData", "main"}]_vars

\* C11 witness: a load has just failed on a Fractal whose earlier run has
\* already made a breakthrough.
C11_Witness ==
  ev.op = "onerror" /\ intervals = 1 /\ breakthroughs >= 1 /\ matchCalls = 2

\* Sum, over the pixels and the three colour channels, of the absolute
\* differences of two buffers of n pixels
ChannelSum(x, y, n) ==
  LET D == {<<p, c>> : p \in 0..(n - 1), c \in 1..3}
      Byte(b, pc) == b[4 * pc[1] + pc[2]]
      RECURSIVE Sum(_)
      Sum(S) == IF S = {} THEN 0
                ELSE LET e == CHOOSE e \in S : TRUE
                     IN Abs(Byte(x, e) - Byte(y, e)) + Sum(S \ {e})
  IN Sum(D)

\* A buffer with every alpha byte replaced by a
WithAlpha(buf, a) ==
  [k \in DOMAIN buf |-> IF k % 4 = 0 THEN a ELSE buf[k]]

AlphaSamples == {0, 128, 255}

\* The scorer has returned from calculateDifference
Differenced == scorer.pc \in {"difference", "match"}

\* C12: for two buffers of equal dimensions, calculateDifference returns the
\* sum over all pixels of |dR| + |dG| + |dB|; the alpha bytes of either
\* buffer do not change the result, and the result is never negative.
C12_ChannelSum ==
  Differenced =>
    /\ scorer.diff = ChannelSum(scorer.target, scorer.rendered,
                                scorer.width * scorer.height)
    /\ scorer.diff >= 0
    /\ \A a1 \in AlphaSamples, a2 \in AlphaSamples :
         calculateDifference(WithAlpha(scorer.target, a1),
                             WithAlpha(scorer.rendered, a2)) = scorer.diff

C12_Witness ==
  /\ Differenced
  /\ scorer.width * scorer.height = MaxPixels
  /\ scorer.diff > 0
  /\ \E k \in DOMAIN scorer.target :
       k % 4 = 0 /\ scorer.target[k] # scorer.rendered[k]
  /\ \E k \in DOMAIN scorer.target :
       k % 4 # 0 /\ scorer.target[k] < scorer.rendered[k]
  /\ \E k \in DOMAIN scorer.target :
       k % 4 # 0 /\ scorer.target[k] > scorer.rendered[k]

\* C13: the difference of a buffer against an identical buffer is 0, and a
\* difference of 0 gives a match of exactly 100 whatever positive maximum it
\* is measured against.
C13_Identical ==
  (Differenced /\ scorer.target = scorer.rendered) =>
    /\ scorer.diff = 0
    /\ scorer.pc = "match" =>
         /\ scorer.match = 100 * Scale
         /\ \A max \in 1..scorer.max :
              getMatch(scorer.diff, max) = 100 * Scale

C13_Witness ==
  /\ scorer.pc = "match"
  /\ scorer.target = scorer.rendered
  /\ scorer.width * scorer.height = MaxPixels
  /\ \E k \in DOMAIN scorer.target : scorer.target[k] \notin {0, 255}

\* Every colour byte of the buffer is v
AllRgb(buf, v) == \A k \in DOMAIN buf : k % 4 # 0 => buf[k] = v

\* C14: the maximum difference is width * height * 3 * 255; a buffer whose
\* colour bytes are all 0 scored against one whose colour bytes are all 255
\* gives exactly that difference and a match of 0; for buffers of equal
\* dimensions the match is never below 0 nor above 100.
C14_MaxDifference ==
  scorer.pc = "match" =>
    /\ scorer.max = scorer.width * scorer.height * 3 * 255
    /\ scorer.diff <= scorer.max
    /\ 0 <= scorer.match /\ scorer.match <= 100 * Scale
    /\ (\/ AllRgb(scorer.target, 0) /\ AllRgb(scorer.rendered, 255)
        \/ AllRgb(scorer.target, 255) /\ AllRgb(scorer.rendered, 0)) =>
         scorer.diff = scorer.max /\ scorer.match = 0

C14_Witness ==
  /\ scorer.pc = "match"
  /\ scorer.width * scorer.height = MaxPixels
  /\ AllRgb(scorer.target, 0) /\ AllRgb(scorer.rendered, 255)
  /\ scorer.diff = scorer.max
  /\ \E k \in DOMAIN scorer.target : scorer.target[k] # 255 - scorer.rendered[k]

\* C15: after every round the value last written for "mutations" is the
\* mutations counter, and after every accepted round the value last written
\* for "break" is the breakthroughs counter and the value written for
\* "match" is the new lastMatch.
C15_SinkValues ==
  (ev.op = "drawFrame" /\ ev.threw = 0 /\ stats = StatNames) =>
    /\ sink["mutations"] = <<mutations>>
    /\ ev.accepted =>
         /\ sink["break"] = <<breakthroughs>>
         /\ sink["match"] = <<toFixed4(lastMatch)>>

\* C16: a round changes at most the polygon at the index nextMutable held
\* at its start and leaves every other polygon, the length and the order of
\* the population as they were; once the loop runs, the population holds
\* POLYGON_COUNT polygons.
C16_RoundFrame ==
  [][/\ RoundStep =>
          /\ Len(polygons') = Len(polygons)
          /\ \A i \in DOMAIN polygons :
               i # nextMutable + 1 => polygons'[i] = polygons[i]
     /\ intervals' > 0 => Len(polygons') = POLYGON_COUNT]_vars

\* C16 witness: with two polygons, the round that changed the second one was
\* accepted and the cursor wrapped.
C16_Witness ==
  /\ Scored /\ ev.accepted
  /\ POLYGON_COUNT = 2 /\ Len(polygons) = 2
  /\ rounds >= 2 /\ nextMutable = 0
  /\ polygons[2].stashed # << >>
  /\ Shape(polygons[2]) # polygons[2].stashed[1]

\* Setup is complete for the target in imageData: the loop is installed,
\* the population is there, and the canvas and maxDifference have the
\* dimensions of the buffer getImageData decoded (img.w x img.h, line 138)
SetupComplete ==
  /\ intervals > 0
  /\ Len(polygons) = POLYGON_COUNT
  /\ \E img \in TargetImages :
       /\ imageData = img.data
       /\ Len(imageData) = 4 * img.w * img.h
       /\ canvas = [el |-> TRUE, width |-> img.w, height |-> img.h]
       /\ maxDifference = img.w * img.h * 3 * 255

\* C17: a round executes only when setup is complete: the target buffer is
\* loaded, maxDifference is width * height * 3 * 255 of the target, the
\* canvas has the target's dimensions and the population holds POLYGON_COUNT
\* polygons; a load completes only for a match() call, getImageData runs
\* right after the load, main right after getImageData.
C17_SetupBeforeRound ==
  [][/\ RoundStep => SetupComplete
     /\ ev'.op = "onload" => matchCalls > 0
     /\ ev'.op = "getImageData" => ev.op = "onload"
     /\ ev'.op = "main" => ev.op = "getImageData"]_vars

\* main() has started the loop with at least one polygon and every stats
\* element present
LoopStarted == intervals > 0 /\ POLYGON_COUNT >= 1 /\ stats = StatNames

\* drawFrame can take a step: a tick is due and the selected polygon, if
\* there is one, has a mutation
RoundEnabled ==
  /\ TickDue
  /\ nextMutable + 1 \in DOMAIN polygons =>
       mutate(stash(polygons[nextMutable + 1]), canvas.width, canvas.height)
         # {}

\* C18: once main() has started the loop with POLYGON_COUNT >= 1 and every
\* stats element present, a further round is enabled whenever no promise
\* reaction is pending (up to the bound on rounds), whatever the score and
\* the counters, every round runs to its end, and under a fair scheduler
\* the mutations counter reaches the bound on rounds.
C18_NoTerminalState ==
  /\ [](LoopStarted /\ QueueEmpty /\ rounds < MaxRounds => RoundEnabled)
  /\ [][LoopStarted /\ RoundStep =>
          ev'.threw = 0 /\ mutations' = mutations + 1]_vars
  /\ LoopStarted ~> (mutations = MaxRounds)

\* C18 witness: the loop went on to the last round explored although no
\* round ever improved the score.
C18_Witness ==
  LoopStarted /\ mutations = MaxRounds /\ breakthroughs = 0 /\ Rejected

\* C19: within a single run, at every round boundary after at least one
\* breakthrough, lastMatch is the match of the composite of the current
\* population against the target.
C19_BestIsCurrent ==
  (matchCalls = 1 /\ breakthroughs >= 1 /\ QueueEmpty) =>
    lastMatch = MatchOf(polygons)

\* C19 witness: after a breakthrough of a single run, a round that scored
\* lower was rejected.
C19_Witness ==
  /\ matchCalls = 1 /\ breakthroughs >= 1 /\ QueueEmpty
  /\ Rejected /\ ev.match # NaN /\ ev.match < lastMatch
  /\ POLYGON_COUNT = 2

\* C20: with every stats element present, 0 <= breakthroughs <= mutations
\* in every state, breakthroughs grows by one exactly in the steps that
\* change lastMatch, which are rounds, and neither counter ever decreases.
C20_Counters ==
  [][StatNames \subseteq dom =>
       /\ 0 <= breakthroughs /\ breakthroughs <= mutations
       /\ 0 <= breakthroughs' /\ breakthroughs' <= mutations'
       /\ breakthroughs' =
            breakthroughs + (IF lastMatch' # lastMatch THEN 1 ELSE 0)
       /\ lastMatch' # lastMatch => RoundStep
       /\ mutations' >= mutations
       /\ breakthroughs' >= breakthroughs]_vars

\* C20 witness: with every stats element present, two rounds out of more
\* were breakthroughs.
C20_Witness ==
  /\ StatNames \subseteq dom
  /\ breakthroughs = 2 /\ mutations > breakthroughs
  /\ Scored /\ ev.accepted

====
